---- MODULE Spec2Model ----
(***************************************************************************)
(* A model of the request pipeline of the sunk Subsonic client             *)
(* (src/src/sunk.rs): SunkAuth::as_uri, Sunk::new, Sunk::build_url,        *)
(* Sunk::get, Sunk::try_binary, Sunk::get_raw and the facade methods       *)
(* built on get.                                                           *)
(*                                                                         *)
(* Text is a sequence of one-character strings, so that format! and        *)
(* push_str are concatenations and a URL can be taken apart again.         *)
(* A call is split at the one point where the code blocks                  *)
(* (self.core.run(work)): the call issues its GET, the network answers,    *)
(* the call completes.                                                     *)
(***************************************************************************)
EXTENDS Integers, Sequences, FiniteSets, TLC

VARIABLES
    url,        \* Sunk.url: the parsed base Uri, [scheme, authority]
    auth,       \* Sunk.auth: SunkAuth, [user, password]
    api,        \* Sunk.api: the Api version, a triple
    env,        \* the process environment: the value of CARGO_PKG_NAME, or unset
    pc,         \* position of the current call
    op,         \* the public method being run
    query,      \* its endpoint argument (`query: &str`)
    args,       \* its Query argument
    raw_uri,    \* the URL the call built, once built
    requests,   \* HTTP GETs the current call has issued
    response,   \* what the HTTP exchange produced
    result      \* what the call returned

vars == <<url, auth, api, env, pc, op, query, args, raw_uri, requests, response, result>>

(***************************************************************************)
(* Bounds of the model.                                                    *)
(***************************************************************************)
\* Query arguments per request.
MaxArgs == 1
\* Extra fields an envelope carries beside status, version and payload.
MaxExtra == 1

(***************************************************************************)
(* Text.                                                                   *)
(***************************************************************************)
RECURSIVE Concat(_)
\* [a, b, c].concat()
Concat(parts) ==
    IF parts = <<>> THEN <<>> ELSE Head(parts) \o Concat(Tail(parts))

\* The index of the first occurrence of character c in s at or after i, or 0.
RECURSIVE IndexFrom(_, _, _)
IndexFrom(s, c, i) ==
    IF i > Len(s) THEN 0
    ELSE IF s[i] = c THEN i
    ELSE IndexFrom(s, c, i + 1)

\* s split at every occurrence of the character c.
RECURSIVE Split(_, _)
Split(s, c) ==
    LET i == IndexFrom(s, c, 1) IN
    IF i = 0 THEN <<s>>
    ELSE <<SubSeq(s, 1, i - 1)>> \o Split(SubSeq(s, i + 1, Len(s)), c)

StartsWith(s, p) == Len(s) >= Len(p) /\ SubSeq(s, 1, Len(p)) = p

EndsWith(s, p) == Len(s) >= Len(p) /\ SubSeq(s, Len(s) - Len(p) + 1, Len(s)) = p

\* The parameters of a query string: its pieces between "&".
Params(fragment) == Split(fragment, "&")

\* Whether a query string has a parameter named by key (key ends in "=").
HasParam(fragment, key) ==
    LET ps == Params(fragment) IN \E i \in 1..Len(ps) : StartsWith(ps[i], key)

\* The values of the parameters named by key, in order.
ParamValues(fragment, key) ==
    LET ps == Params(fragment) IN
    SelectSeq([i \in 1..Len(ps) |->
                  IF StartsWith(ps[i], key)
                  THEN <<"v", SubSeq(ps[i], Len(key) + 1, Len(ps[i]))>>
                  ELSE <<"n", <<>>>>],
              LAMBDA e : e[1] = "v")

HexDigits == <<"0", "1", "2", "3", "4", "5", "6", "7", "8", "9",
               "a", "b", "c", "d", "e", "f">>

\* format!("{}", n) of an unsigned number.
RECURSIVE FmtNat(_)
FmtNat(n) ==
    IF n < 10 THEN <<HexDigits[n + 1]>>
    ELSE FmtNat(n \div 10) \o <<HexDigits[(n % 10) + 1]>>

\* The ASCII code of a character of the model's alphabet.
Ascii(c) ==
    CASE c = "0" -> 48 [] c = "1" -> 49 [] c = "7" -> 55 [] c = "9" -> 57
      [] c = "A" -> 65 [] c = "Q" -> 81 [] c = "Z" -> 90
      [] c = "a" -> 97 [] c = "b" -> 98 [] c = "g" -> 103 [] c = "k" -> 107
      [] c = "p" -> 112 [] c = "s" -> 115 [] c = "u" -> 117 [] c = "w" -> 119
      [] c = "x" -> 120 [] c = "z" -> 122

\* as_bytes() of text.
AsBytes(s) == [i \in 1..Len(s) |-> Ascii(s[i])]

\* Literals.
HTTP == <<"h", "t", "t", "p">>
HTTPS == <<"h", "t", "t", "p", "s">>
REST == <<"/", "r", "e", "s", "t", "/">>
PING == <<"p", "i", "n", "g">>
GET_LICENSE == <<"g", "e", "t", "L", "i", "c", "e", "n", "s", "e">>
START_SCAN == <<"s", "t", "a", "r", "t", "S", "c", "a", "n">>
GET_SCAN_STATUS == <<"g", "e", "t", "S", "c", "a", "n", "S", "t", "a", "t", "u", "s">>
MUSIC_FOLDERS == <<"m", "u", "s", "i", "c", "F", "o", "l", "d", "e", "r", "s">>
GET_GENRES == <<"g", "e", "t", "G", "e", "n", "r", "e", "s">>
SEARCH3 == <<"s", "e", "a", "r", "c", "h", "3">>
STREAM == <<"s", "t", "r", "e", "a", "m">>
EMPTY == <<>>

(***************************************************************************)
(* Api: the version of the Subsonic API (module api).                      *)
(***************************************************************************)
\* Api::from("1.13.0"), Api::from("1.14.0")
V1_13_0 == <<1, 13, 0>>
V1_14_0 == <<1, 14, 0>>

\* a >= b on Api: the order of dotted version triples.
ApiGe(a, b) ==
    \/ a[1] > b[1]
    \/ a[1] = b[1] /\ a[2] > b[2]
    \/ a[1] = b[1] /\ a[2] = b[2] /\ a[3] >= b[3]

\* format!("{}", api)
ApiDisplay(a) == Concat(<<FmtNat(a[1]), <<".">>, FmtNat(a[2]), <<".">>, FmtNat(a[3])>>)

(***************************************************************************)
(* Results of calls.                                                       *)
(***************************************************************************)
Ok(v) == [tag |-> "Ok", val |-> v]
Err(e) == [tag |-> "Err", val |-> e]
\* A panic: the thread unwinds, the call returns nothing.
Panic(m) == [tag |-> "Panic", val |-> <<m>>]
NoResult == [tag |-> "None", val |-> <<>>]

IsOk(r) == r.tag = "Ok"
IsErr(r) == r.tag = "Err"
IsPanic(r) == r.tag = "Panic"

(***************************************************************************)
(* SunkAuth::as_uri                                                        *)
(***************************************************************************)
SALT_SIZE == 36

\* md5::compute: the 16-byte digest.  The digest function of the md5 crate is
\* kept as a deterministic function of the bytes that spreads over 16 bytes;
\* its values are not MD5's.
RECURSIVE Mix(_, _, _)
Mix(bytes, k, h) ==
    IF k > Len(bytes) THEN h ELSE Mix(bytes, k + 1, (h * 31 + bytes[k]) % 65521)

md5_compute(bytes) == [i \in 1..16 |-> (Mix(bytes, 1, i) * (2 * i + 1)) % 256]

\* format!("{:x}", digest): two lower-case hex digits per byte.
FmtHex(digest) ==
    Concat([i \in 1..Len(digest) |->
               <<HexDigits[(digest[i] \div 16) + 1], HexDigits[(digest[i] % 16) + 1]>>])

Unset == <<"unset">>

\* ::std::env::var("CARGO_PKG_NAME")
env_var(e) == IF e = Unset THEN Err([kind |-> "NotPresent"]) ELSE Ok(e[2])

\* as_uri_auth with the token scheme gated at 1.14.0 instead of 1.13.0.
as_uri_auth_gated_late(self, v, salt) ==
    IF ApiGe(v, V1_14_0)
    THEN LET pre_t == self.password \o salt
             token == FmtHex(md5_compute(AsBytes(pre_t)))
         IN Concat(<<<<"u", "=">>, self.user, <<"&", "t", "=">>, token,
                     <<"&", "s", "=">>, salt>>)
    ELSE Concat(<<<<"u", "=">>, self.user, <<"&", "p", "=">>, self.password>>)

\* The auth part of as_uri; salt is what thread_rng() yields.
as_uri_auth(self, v, salt) ==
    IF ApiGe(v, V1_13_0)
    THEN LET pre_t == self.password \o salt
             token == FmtHex(md5_compute(AsBytes(pre_t)))
         IN Concat(<<<<"u", "=">>, self.user, <<"&", "t", "=">>, token,
                     <<"&", "s", "=">>, salt>>)
    ELSE Concat(<<<<"u", "=">>, self.user, <<"&", "p", "=">>, self.password>>)

\* The format of as_uri.
as_uri_format(v) ==
    IF ApiGe(v, V1_14_0) THEN <<"j", "s", "o", "n">> ELSE <<"x", "m", "l">>

\* as_uri: the auth fragment, or the panic of unwrap() on an unset variable.
as_uri(self, v, salt, e) ==
    LET a == as_uri_auth(self, v, salt)
        format == as_uri_format(v)
        crate_name == env_var(e)
    IN IF ~IsOk(crate_name)
       THEN Panic("unwrap on Err(NotPresent)")
       ELSE Ok(Concat(<<a, <<"&", "v", "=">>, ApiDisplay(v),
                        <<"&", "c", "=">>, crate_name.val,
                        <<"&", "f", "=">>, format>>))

(***************************************************************************)
(* Errors (module error).  Every error is [kind, code, msg].               *)
(***************************************************************************)
\* Error::Uri(UriError::Scheme), Error::Uri(UriError::Address)
UriError(which) == [kind |-> "Uri", code |-> 0, msg |-> which]
\* Error::ConnectionError(status)
ConnectionError(status) == [kind |-> "ConnectionError", code |-> status, msg |-> ""]
\* Error::Other(message)
Other(message) == [kind |-> "Other", code |-> 0, msg |-> message]
\* The conversion `?` applies to a hyper::Error.
FromHyperError(e) == [kind |-> "NetworkError", code |-> 0, msg |-> e]
\* The conversion `?` applies to a serde_json::Error.
FromJsonError(e) == [kind |-> "ParseError", code |-> 0, msg |-> e]
\* The error of a failed envelope.
ServerError(code, message) == [kind |-> "ServerError", code |-> code, msg |-> message]

(***************************************************************************)
(* Query (module query).                                                   *)
(***************************************************************************)
\* Query::with(key, value)
QueryWith(key, value) == <<[key |-> key, value |-> value]>>

\* Query::arg(key, value)
QueryArg(q, key, value) == Append(q, [key |-> key, value |-> value])

\* Query::to_string(): key1=val1&key2=val2 in insertion order.
RECURSIVE QueryToString(_)
QueryToString(q) ==
    IF q = <<>> THEN <<>>
    ELSE Concat(<<q[1].key, <<"=">>, q[1].value>>)
         \o (IF Len(q) = 1 THEN <<>> ELSE <<"&">> \o QueryToString(Tail(q)))

(***************************************************************************)
(* JSON values (serde_json::Value) and response bodies.                    *)
(***************************************************************************)
JNull == [t |-> "null"]
JBool(b) == [t |-> "bool", b |-> b]
JNum(n) == [t |-> "num", n |-> n]
JStr(str) == [t |-> "str", s |-> str]
JArray(a) == [t |-> "array", a |-> a]
JObject(o) == [t |-> "object", o |-> o]

\* value[key]: Null unless value is an object that has the key.
JIndex(value, key) ==
    IF value.t = "object" /\ key \in DOMAIN value.o THEN value.o[key] ELSE JNull

\* A body that is the text of a JSON document.
JsonBody(value) == [kind |-> "json", bytes |-> <<>>, json |-> value]
\* A body that is not the text of any JSON document.
BytesBody(bytes) == [kind |-> "bytes", bytes |-> bytes, json |-> JNull]

\* serde_json::from_slice::<Value>(&body)
from_slice(body) ==
    IF body.kind = "json" THEN Ok(body.json) ELSE Err(FromJsonError("expected value"))

IsCont(b) == b >= 128 /\ b <= 191

\* Whether bytes are well-formed UTF-8 (what String::from_utf8 accepts).
RECURSIVE Utf8Valid(_)
Utf8Valid(bs) ==
    IF bs = <<>> THEN TRUE
    ELSE LET b == bs[1]
             n == Len(bs)
             rest(k) == SubSeq(bs, k + 1, n)
         IN
         IF b < 128 THEN Utf8Valid(rest(1))
         ELSE IF b >= 194 /\ b <= 223
              THEN n >= 2 /\ IsCont(bs[2]) /\ Utf8Valid(rest(2))
         ELSE IF b >= 224 /\ b <= 239
              THEN /\ n >= 3
                   /\ IsCont(bs[2]) /\ IsCont(bs[3])
                   /\ (b = 224 => bs[2] >= 160)
                   /\ (b = 237 => bs[2] <= 159)
                   /\ Utf8Valid(rest(3))
         ELSE IF b >= 240 /\ b <= 244
              THEN /\ n >= 4
                   /\ IsCont(bs[2]) /\ IsCont(bs[3]) /\ IsCont(bs[4])
                   /\ (b = 240 => bs[2] >= 144)
                   /\ (b = 244 => bs[2] <= 143)
                   /\ Utf8Valid(rest(4))
         ELSE FALSE

\* String::from_utf8(body.to_vec()): the text of a JSON document is UTF-8.
from_utf8(body) ==
    IF body.kind = "json" \/ Utf8Valid(body.bytes)
    THEN Ok(body)
    ELSE Err([kind |-> "FromUtf8Error", code |-> 0, msg |-> "invalid utf-8"])

(***************************************************************************)
(* The response envelope (module response).                                *)
(***************************************************************************)
NoError == [code |-> 0, message |-> ""]

\* {"subsonic-response": {status, version, <payload> | error, ...extra}}
Envelope(status, payload, error, extra) ==
    [t |-> "envelope", status |-> status, payload |-> payload, error |-> error,
     extra |-> extra]

\* serde_json::from_value::<response::Root>(value), then .response
from_value_Root(value) ==
    IF value.t = "envelope" THEN Ok(value)
    ELSE Err(FromJsonError("missing field subsonic-response"))

\* Response::is_ok
is_ok(resp) == resp.status = "ok"

\* Response::into_value
into_value(resp) == Ok(resp.payload)

\* Response::into_error
into_error(resp) == Ok(ServerError(resp.error.code, resp.error.message))

\* hyper::StatusCode::is_success
is_success(status) == status >= 200 /\ status < 300

(***************************************************************************)
(* Sunk::new and Sunk::build_url                                           *)
(***************************************************************************)
None == <<>>
Some(x) == <<x>>

\* A client built for an API older than token authentication.
new_api_legacy == <<1, 12, 0>>

\* The Api a new client is given.
new_api == V1_14_0

\* Sunk::new(url, user, password), given the Uri that Uri::from_str(url) yields.
Sunk_new(uri, user, password) ==
    [url |-> uri, auth |-> [user |-> user, password |-> password], api |-> new_api]

\* self.url.scheme().or_else(|| Some("http")).ok_or_else(|| Error::Uri(UriError::Scheme))
build_url_scheme(self) ==
    LET scheme == IF self.url.scheme # None THEN self.url.scheme ELSE Some(HTTP)
    IN IF scheme = None THEN Err(UriError("Scheme")) ELSE Ok(scheme[1])

\* self.url.authority().ok_or_else(|| Error::Uri(UriError::Address))
build_url_addr(self) ==
    IF self.url.authority = None THEN Err(UriError("Address")) ELSE Ok(self.url.authority[1])

\* build_url(query, args): Ok(url), Err(error), or the panic of as_uri.
build_url(self, q, a, salt, e) ==
    LET scheme == build_url_scheme(self)
        addr == build_url_addr(self)
    IN IF ~IsOk(scheme) THEN scheme
       ELSE IF ~IsOk(addr) THEN addr
       ELSE LET fragment == as_uri(self.auth, self.api, salt, e)
            IN IF ~IsOk(fragment) THEN fragment
               ELSE Ok(Concat(<<scheme.val, <<":", "/", "/">>, addr.val, REST,
                                q, <<"?">>, fragment.val, <<"&">>, QueryToString(a)>>))

(***************************************************************************)
(* What a call returns, given what the HTTP exchange produced.             *)
(***************************************************************************)
\* No exchange: the connection failed.
NetworkFailure == [ok |-> FALSE, status |-> 0, body |-> BytesBody(<<>>)]
\* A completed exchange.
Exchange(status, body) == [ok |-> TRUE, status |-> status, body |-> body]

\* get that returns the payload of any envelope, failed or ok.
get_result_ignoring_failed(q, resp) ==
    IF ~resp.ok THEN Err(FromHyperError("Connect"))
    ELSE LET v == from_slice(resp.body) IN
         IF ~IsOk(v) THEN Err(FromHyperError("Io"))
         ELSE LET root == from_value_Root(v.val) IN
              IF ~IsOk(root) THEN root
              ELSE IF is_success(resp.status)
                   THEN IF q = PING THEN Ok(JNull) ELSE into_value(root.val)
                   ELSE Err(ConnectionError(resp.status))

\* get without the special case of ping.
get_result_without_ping(q, resp) ==
    IF ~resp.ok THEN Err(FromHyperError("Connect"))
    ELSE LET v == from_slice(resp.body) IN
         IF ~IsOk(v) THEN Err(FromHyperError("Io"))
         ELSE LET root == from_value_Root(v.val) IN
              IF ~IsOk(root) THEN root
              ELSE IF is_success(resp.status)
                   THEN IF is_ok(root.val)
                        THEN into_value(root.val)
                        ELSE LET err == into_error(root.val)
                             IN IF IsOk(err) THEN Err(err.val) ELSE err
                   ELSE Err(ConnectionError(resp.status))

\* Sunk::get, from self.core.run(work) on.
get_result(q, resp) ==
    IF ~resp.ok THEN Err(FromHyperError("Connect"))
    ELSE LET v == from_slice(resp.body) IN
         IF ~IsOk(v) THEN Err(FromHyperError("Io"))
         ELSE LET root == from_value_Root(v.val) IN
              IF ~IsOk(root) THEN root
              ELSE IF is_success(resp.status)
                   THEN IF is_ok(root.val)
                        THEN IF q = PING THEN Ok(JNull) ELSE into_value(root.val)
                        ELSE LET err == into_error(root.val)
                             IN IF IsOk(err) THEN Err(err.val) ELSE err
                   ELSE Err(ConnectionError(resp.status))

\* try_binary that looks at the HTTP status before the body.
try_binary_result_checking_status(uri, resp) ==
    IF ~resp.ok THEN Err(FromHyperError("Connect"))
    ELSE IF ~is_success(resp.status) THEN Err(ConnectionError(resp.status))
    ELSE LET valid_json == IsOk(from_slice(resp.body))
         IN IF ~valid_json THEN Ok(uri) ELSE Err(FromHyperError("Method"))

\* Sunk::try_binary, from self.core.run(work) on.
try_binary_result(uri, resp) ==
    IF ~resp.ok THEN Err(FromHyperError("Connect"))
    ELSE LET valid_json == IsOk(from_slice(resp.body))
         IN IF ~valid_json THEN Ok(uri) ELSE Err(FromHyperError("Method"))

\* get_raw that hands the conversion's own error on.
get_raw_result_passing_error(resp) ==
    IF ~resp.ok THEN Err(FromHyperError("Connect"))
    ELSE from_utf8(resp.body)

\* Sunk::get_raw, from self.core.run(work) on.
get_raw_result(resp) ==
    IF ~resp.ok THEN Err(FromHyperError("Connect"))
    ELSE LET text == from_utf8(resp.body)
         IN IF IsOk(text) THEN text ELSE Err(Other("Unable to parse stream as UTF-8"))

(***************************************************************************)
(* The facade methods built on get.                                        *)
(***************************************************************************)
\* Value::as_u64
as_u64(value) == IF value.t = "num" /\ value.n >= 0 THEN Some(value.n) ELSE None
\* Value::as_bool
as_bool(value) == IF value.t = "bool" THEN Some(value.b) ELSE None

\* An Option<String> field of a deserialized struct.
IsOptStr(value) == value.t \in {"null", "str"}

\* serde_json::from_value::<License>(res)
from_value_License(res) ==
    IF /\ res.t = "object"
       /\ JIndex(res, "valid").t = "bool"
       /\ JIndex(res, "email").t = "str"
       /\ IsOptStr(JIndex(res, "trialExpires"))
       /\ IsOptStr(JIndex(res, "licenseExpires"))
    THEN Ok([valid |-> JIndex(res, "valid").b,
             email |-> JIndex(res, "email").s,
             trial_expires |-> JIndex(res, "trialExpires"),
             license_expires |-> JIndex(res, "licenseExpires")])
    ELSE Err(FromJsonError("invalid License"))

\* check_connection: self.get("ping", ..).map(|_| ())
check_connection_result(resp) ==
    LET r == get_result(PING, resp) IN IF IsOk(r) THEN Ok(<<>>) ELSE r

\* check_license
check_license_result(resp) ==
    LET res == get_result(GET_LICENSE, resp)
    IN IF IsOk(res) THEN from_value_License(res.val) ELSE res

\* scan_library
scan_library_result(resp) ==
    LET r == get_result(START_SCAN, resp) IN IF IsOk(r) THEN Ok(<<>>) ELSE r

\* scan_status
scan_status_result(resp) ==
    LET res == get_result(GET_SCAN_STATUS, resp) IN
    IF ~IsOk(res) THEN res
    ELSE LET status == as_bool(JIndex(res.val, "scanning"))
             count == as_u64(JIndex(res.val, "count"))
         IN IF status # None
            THEN IF count # None
                 THEN Ok(<<status[1], count[1]>>)
                 ELSE Panic("unreachable")
            ELSE Panic("unreachable")

\* get_list_as!(value, T): the payload's array, element by element.
get_list_as(value) ==
    IF value.t = "array" THEN Ok(value.a) ELSE Err(FromJsonError("not an array"))

\* music_folders
music_folders_result(resp) ==
    LET musicFolder == get_result(MUSIC_FOLDERS, resp)
    IN IF IsOk(musicFolder) THEN get_list_as(musicFolder.val) ELSE musicFolder

\* genres
genres_result(resp) ==
    LET genre == get_result(GET_GENRES, resp)
    IN IF IsOk(genre) THEN get_list_as(genre.val) ELSE genre

\* serde_json::from_value::<Output>(res) in search
from_value_Output(res) ==
    IF /\ res.t = "object"
       /\ JIndex(res, "artist").t = "array"
       /\ JIndex(res, "album").t = "array"
       /\ JIndex(res, "song").t = "array"
    THEN Ok(<<JIndex(res, "artist").a, JIndex(res, "album").a, JIndex(res, "song").a>>)
    ELSE Err(FromJsonError("invalid Output"))

\* search
search_result(resp) ==
    LET res == get_result(SEARCH3, resp)
    IN IF IsOk(res) THEN from_value_Output(res.val) ELSE res

\* The arguments search builds from its query and its three pages.
search_args(term, artist_page, album_page, song_page) ==
    QueryArg(QueryArg(QueryArg(QueryArg(QueryArg(QueryArg(
        QueryWith(<<"q", "u", "e", "r", "y">>, term),
        <<"a", "r", "t", "i", "s", "t", "C", "o", "u", "n", "t">>, FmtNat(artist_page.count)),
        <<"a", "r", "t", "i", "s", "t", "O", "f", "f", "s", "e", "t">>, FmtNat(artist_page.offset)),
        <<"a", "l", "b", "u", "m", "C", "o", "u", "n", "t">>, FmtNat(album_page.count)),
        <<"a", "l", "b", "u", "m", "O", "f", "f", "s", "e", "t">>, FmtNat(album_page.offset)),
        <<"s", "o", "n", "g", "C", "o", "u", "n", "t">>, FmtNat(song_page.count)),
        <<"s", "o", "n", "g", "O", "f", "f", "s", "e", "t">>, FmtNat(song_page.offset))

\* What the call of method m returns once its exchange has produced resp.
call_result(m, q, uri, resp) ==
    CASE m = "get" -> get_result(q, resp)
      [] m = "try_binary" -> try_binary_result(uri, resp)
      [] m = "get_raw" -> get_raw_result(resp)
      [] m = "check_connection" -> check_connection_result(resp)
      [] m = "check_license" -> check_license_result(resp)
      [] m = "scan_library" -> scan_library_result(resp)
      [] m = "scan_status" -> scan_status_result(resp)
      [] m = "music_folders" -> music_folders_result(resp)
      [] m = "genres" -> genres_result(resp)
      [] m = "search" -> search_result(resp)

(***************************************************************************)
(* The inputs of the model.                                                *)
(***************************************************************************)
\* Parsed base URLs: origin form (no scheme, no authority), authority form
\* (no scheme), and absolute.
Uris ==
    { [scheme |-> None, authority |-> None],
      [scheme |-> None, authority |-> Some(<<"h", ":", "8", "0">>)],
      [scheme |-> Some(HTTP), authority |-> Some(<<"h">>)],
      [scheme |-> Some(HTTPS), authority |-> Some(<<"h">>)] }

\* Credentials, of characters that stand for themselves in a URL.
Credentials ==
    { [user |-> <<"u">>, password |-> <<"p", "w">>],
      [user |-> <<"a", "b">>, password |-> <<"x">>] }

\* The API versions as_uri is applied to.
ApiVersions ==
    { <<0, 99, 9>>, <<1, 9, 0>>, <<1, 12, 0>>, <<1, 13, 0>>, <<1, 13, 1>>,
      <<1, 14, 0>>, <<1, 15, 0>>, <<2, 0, 0>> }

\* CARGO_PKG_NAME in the environment of the running process.
Envs == { Unset, <<"set", <<"s", "u", "n", "k">>>> }

\* SALT_SIZE characters, the pattern repeated.
SaltOf(pattern) == [i \in 1..SALT_SIZE |-> pattern[((i - 1) % Len(pattern)) + 1]]

\* What thread_rng().gen_ascii_chars().take(SALT_SIZE) can yield.
Salts == { SaltOf(<<"a", "Z">>), SaltOf(<<"7", "k", "Q">>) }

Endpoints == { PING, STREAM }

ArgPairs ==
    { [key |-> <<"i", "d">>, value |-> <<"1", "8", "9">>],
      [key |-> <<"s", "i", "z", "e">>, value |-> <<"7">>] }

RECURSIVE SeqsUpTo(_, _)
SeqsUpTo(S, n) ==
    IF n = 0 THEN { <<>> }
    ELSE LET shorter == SeqsUpTo(S, n - 1)
         IN shorter \cup { Append(q, x) : q \in shorter, x \in S }

\* The Query values callers pass.
Queries == SeqsUpTo(ArgPairs, MaxArgs) \ { <<>> }

Statuses == { 200, 204, 404, 500 }

Payloads ==
    { JNull,
      JObject([scanning |-> JBool(FALSE), count |-> JNum(521)]),
      JObject([scanning |-> JBool(TRUE)]),
      JObject([valid |-> JBool(TRUE), email |-> JStr("demo@subsonic.org")]),
      JArray(<<JNum(1)>>),
      JObject([artist |-> JArray(<<>>), album |-> JArray(<<>>), song |-> JArray(<<>>)]) }

ServerErrors ==
    { [code |-> 0, message |-> "A generic error"],
      [code |-> 10, message |-> "x"],
      [code |-> 40, message |-> "x"],
      [code |-> 70, message |-> "not found"] }

Bodies ==
    { BytesBody(b) : b \in { <<>>, <<65>>, <<195, 169>>, <<195>>, <<255>>,
                             <<237, 160, 128>>, <<240, 159, 152, 128>> } }
    \cup { JsonBody(JArray(<<>>)), JsonBody(JObject([a |-> JNum(1)])) }
    \cup { JsonBody(Envelope("ok", p, NoError, x)) : p \in Payloads, x \in 0..MaxExtra }
    \cup { JsonBody(Envelope("failed", JNull, e, 0)) : e \in ServerErrors }

Responses == { NetworkFailure } \cup { Exchange(st, b) : st \in Statuses, b \in Bodies }

NoResponse == [ok |-> FALSE, status |-> -1, body |-> BytesBody(<<>>)]

SearchPage(count, offset) == [count |-> count, offset |-> offset]

(***************************************************************************)
(* The client and its calls.                                               *)
(***************************************************************************)
Self == [url |-> url, auth |-> auth, api |-> api]

NoCall ==
    /\ pc = "idle"
    /\ op = "none"
    /\ query = EMPTY
    /\ args = <<>>
    /\ raw_uri = EMPTY
    /\ requests = 0
    /\ response = NoResponse
    /\ result = NoResult

Init ==
    /\ \E uri \in Uris, c \in Credentials :
         LET sunk == Sunk_new(uri, c.user, c.password)
         IN url = sunk.url /\ auth = sunk.auth /\ api = sunk.api
    /\ env \in Envs
    /\ NoCall

\* A call of method m up to self.client.get(uri): the URL is built and, when
\* that succeeds, parsed and requested.  The URLs of the model are of
\* characters that stand for themselves in a URI, so .parse().unwrap() yields
\* the Uri of the text.
Begin(m, q, a) ==
    /\ pc = "idle"
    /\ \E salt \in Salts :
         LET built == build_url(Self, q, a, salt, env) IN
         /\ op' = m
         /\ query' = q
         /\ args' = a
         /\ IF IsOk(built)
            THEN /\ raw_uri' = built.val
                 /\ requests' = requests + 1
                 /\ pc' = "waiting"
                 /\ result' = NoResult
            ELSE /\ raw_uri' = EMPTY
                 /\ requests' = requests
                 /\ pc' = (IF IsPanic(built) THEN "panicked" ELSE "done")
                 /\ result' = built
    /\ UNCHANGED <<url, auth, api, env, response>>

get == \E q \in Endpoints, a \in Queries : Begin("get", q, a)

try_binary == \E q \in Endpoints, a \in Queries : Begin("try_binary", q, a)

get_raw == \E q \in Endpoints, a \in Queries : Begin("get_raw", q, a)

check_connection == Begin("check_connection", PING, QueryWith(EMPTY, EMPTY))

check_license == Begin("check_license", GET_LICENSE, QueryWith(EMPTY, EMPTY))

scan_library == Begin("scan_library", START_SCAN, QueryWith(EMPTY, EMPTY))

scan_status == Begin("scan_status", GET_SCAN_STATUS, QueryWith(EMPTY, EMPTY))

music_folders == Begin("music_folders", MUSIC_FOLDERS, QueryWith(EMPTY, EMPTY))

genres == Begin("genres", GET_GENRES, QueryWith(EMPTY, EMPTY))

search ==
    Begin("search", SEARCH3,
          search_args(<<"d", "a", "d", "a">>, SearchPage(1, 0), SearchPage(1, 0),
                      SearchPage(1, 0)))

\* The HTTP exchange of the pending request ends: a response, or no connection.
Network ==
    /\ pc = "waiting"
    /\ response' \in Responses
    /\ pc' = "received"
    /\ UNCHANGED <<url, auth, api, env, op, query, args, raw_uri, requests, result>>

\* A completion that requests once more after a network failure.
Complete_retrying ==
    /\ pc = "received"
    /\ LET r == call_result(op, query, raw_uri, response) IN
       IF IsErr(r) /\ r.val.kind = "NetworkError" /\ requests < 2
       THEN /\ pc' = "waiting"
            /\ requests' = requests + 1
            /\ result' = result
       ELSE /\ result' = r
            /\ pc' = (IF IsPanic(r) THEN "panicked" ELSE "done")
            /\ requests' = requests
    /\ UNCHANGED <<url, auth, api, env, op, query, args, raw_uri, response>>

\* The call goes on from self.core.run(work) and returns (or panics).
Complete ==
    /\ pc = "received"
    /\ result' = call_result(op, query, raw_uri, response)
    /\ pc' = (IF IsPanic(result') THEN "panicked" ELSE "done")
    /\ UNCHANGED <<url, auth, api, env, op, query, args, raw_uri, requests, response>>

\* The caller has the result; the client is ready for the next call.
Return ==
    /\ pc = "done"
    /\ pc' = "idle"
    /\ op' = "none"
    /\ query' = EMPTY
    /\ args' = <<>>
    /\ raw_uri' = EMPTY
    /\ requests' = 0
    /\ response' = NoResponse
    /\ result' = NoResult
    /\ UNCHANGED <<url, auth, api, env>>

Next ==
    \/ get
    \/ try_binary
    \/ get_raw
    \/ check_connection
    \/ check_license
    \/ scan_library
    \/ scan_status
    \/ music_folders
    \/ genres
    \/ search
    \/ Network
    \/ Complete
    \/ Return

Spec == Init /\ [][Next]_vars

(***************************************************************************)
(* as_uri alone, applied to every API version.                             *)
(***************************************************************************)
InitAuth ==
    /\ url \in Uris
    /\ auth \in Credentials
    /\ api \in ApiVersions
    /\ env \in Envs
    /\ NoCall

\* self.auth.as_uri(api)
as_uri_call ==
    /\ pc = "idle"
    /\ \E salt \in Salts :
         /\ result' = as_uri(auth, api, salt, env)
         /\ pc' = (IF IsPanic(result') THEN "panicked" ELSE "done")
    /\ op' = "as_uri"
    /\ UNCHANGED <<url, auth, api, env, query, args, raw_uri, requests, response>>

NextAuth == as_uri_call \/ Return

SpecAuth == InitAuth /\ [][NextAuth]_vars

(***************************************************************************)
(* Properties.                                                             *)
(***************************************************************************)
\* The call of method m has returned after a completed HTTP exchange.
Returned(m) == pc = "done" /\ op = m /\ response.ok

\* The body received is the text of an envelope with the given status.
GotEnvelope(status) ==
    /\ response.ok
    /\ response.body.kind = "json"
    /\ response.body.json.t = "envelope"
    /\ response.body.json.status = status

\* The query string of a URL: what follows its "?".
UrlQuery(u) == LET i == IndexFrom(u, "?", 1) IN SubSeq(u, i + 1, Len(u))

\* v is at least major.minor.0.
AtLeast(v, major, minor) == v[1] > major \/ (v[1] = major /\ v[2] >= minor)

\* C1: a get whose exchange completes with a non-2xx status returns
\* ConnectionError(status), whatever the body is.
C1_NonSuccessIsConnectionError ==
    (Returned("get") /\ ~(response.status \in 200..299))
        => (IsErr(result) /\ result.val = ConnectionError(response.status))

\* C2: a get that receives a 2xx status and a failed envelope with error
\* {code, message} fails with the one server-error kind, carrying that code and
\* that message, and never returns a payload.
C2_FailedEnvelopeIsServerError ==
    (pc \in {"done", "panicked"} /\ op = "get" /\ GotEnvelope("failed")
     /\ response.status \in 200..299)
        => /\ IsErr(result)
           /\ result.val.kind = "ServerError"
           /\ result.val.code = response.body.json.error.code
           /\ result.val.msg = response.body.json.error.message

C2_Witness ==
    /\ Returned("get")
    /\ GotEnvelope("failed")
    /\ response.status = 200
    /\ response.body.json.error.code = 40
    /\ IsErr(result)
    /\ result.val.code = 40

\* C3: the auth fragment has t= and s= and no p= from version 1.13.0 on, and
\* p= and neither t= nor s= below it; t is the hex digest of the password
\* followed by the salt that the same fragment gives as s.
C3_AuthSchemeByVersion ==
    (pc = "done" /\ op = "as_uri" /\ IsOk(result)) =>
        LET f == result.val IN
        IF AtLeast(api, 1, 13)
        THEN /\ HasParam(f, <<"t", "=">>)
             /\ HasParam(f, <<"s", "=">>)
             /\ ~HasParam(f, <<"p", "=">>)
             /\ Len(ParamValues(f, <<"s", "=">>)) = 1
             /\ LET s == ParamValues(f, <<"s", "=">>)[1][2]
                IN ParamValues(f, <<"t", "=">>)
                     = << <<"v", FmtHex(md5_compute(AsBytes(auth.password \o s)))>> >>
        ELSE /\ HasParam(f, <<"p", "=">>)
             /\ ~HasParam(f, <<"t", "=">>)
             /\ ~HasParam(f, <<"s", "=">>)

C3_Witness ==
    /\ pc = "done"
    /\ op = "as_uri"
    /\ IsOk(result)
    /\ api = <<1, 13, 0>>
    /\ HasParam(result.val, <<"t", "=">>)
    /\ ParamValues(result.val, <<"s", "=">>) = << <<"v", SaltOf(<<"7", "k", "Q">>)>> >>

\* C4: a try_binary whose exchange completes fails when the body is JSON and
\* returns the URL it built when the body is not JSON, whatever the status.
C4_BinaryProbe ==
    Returned("try_binary") =>
        IF response.body.kind = "json"
        THEN IsErr(result)
        ELSE /\ IsOk(result)
             /\ result.val = raw_uri
             /\ \E salt \in Salts :
                  LET built == build_url(Self, query, args, salt, env)
                  IN IsOk(built) /\ built.val = result.val

C4_Witness ==
    /\ Returned("try_binary")
    /\ response.status = 404
    /\ response.body.kind = "bytes"
    /\ IsOk(result)
    /\ result.val = raw_uri

\* What a call that has begun shows of its build_url: nothing was requested.
BuildFailed == requests = 0

\* C5: build_url fails exactly when the base URL has no authority, then with
\* the Address error and never with the Scheme error; when it succeeds the URL
\* is scheme://authority/rest/endpoint?auth&query, the scheme http if absent.
C5_BuildUrl ==
    (op \notin {"none", "as_uri"}) =>
        /\ BuildFailed <=> (url.authority = None)
        /\ BuildFailed => (IsErr(result) /\ result.val = UriError("Address"))
        /\ ~BuildFailed =>
             \E salt \in Salts :
                LET fragment == as_uri(auth, api, salt, env)
                    scheme == IF url.scheme = None THEN HTTP ELSE url.scheme[1]
                IN /\ IsOk(fragment)
                   /\ raw_uri = Concat(<<scheme, <<":", "/", "/">>, url.authority[1],
                                        REST, query, <<"?">>, fragment.val, <<"&">>,
                                        QueryToString(args)>>)

\* C6: as_uri never panics, and its fragment ends in
\* &v=<version>&c=<client-name>&f=<format>.
C6_AsUriCannotFail ==
    (op = "as_uri") =>
        /\ IsOk(result)
        /\ \E name \in {<<"s", "u", "n", "k">>},
              format \in {<<"j", "s", "o", "n">>, <<"x", "m", "l">>} :
              EndsWith(result.val,
                       Concat(<<<<"&", "v", "=">>, ApiDisplay(api), <<"&", "c", "=">>,
                                name, <<"&", "f", "=">>, format>>))

\* C7: with a 2xx status and an ok envelope, get("ping") returns the null
\* payload whatever else the envelope holds and get of another endpoint
\* returns the nested payload; check_connection, given a 2xx status and an
\* envelope, succeeds exactly when the envelope is ok.
C7_PingAndPayload ==
    /\ (Returned("get") /\ GotEnvelope("ok") /\ response.status \in 200..299)
          => /\ IsOk(result)
             /\ result.val = (IF query = PING THEN JNull ELSE response.body.json.payload)
    /\ (pc \in {"done", "panicked"} /\ op = "check_connection" /\ response.ok
        /\ response.status \in 200..299 /\ response.body.kind = "json"
        /\ response.body.json.t = "envelope")
          => /\ IsOk(result) <=> GotEnvelope("ok")
             /\ IsOk(result) => result.val = <<>>

C7_Witness ==
    /\ Returned("get")
    /\ query = PING
    /\ GotEnvelope("ok")
    /\ response.status = 200
    /\ response.body.json.payload # JNull
    /\ response.body.json.extra > 0
    /\ IsOk(result)
    /\ result.val = JNull

\* The bodies of the model that are not well-formed UTF-8.
NotUtf8 == { <<195>>, <<255>>, <<237, 160, 128>> }

IsNotUtf8(body) == body.kind = "bytes" /\ body.bytes \in NotUtf8

\* C8 as stated: get_raw fails with the Utf8Error kind on a body that is not
\* UTF-8, and returns a UTF-8 body unchanged.
C8_Utf8ErrorKind ==
    Returned("get_raw") =>
        IF IsNotUtf8(response.body)
        THEN IsErr(result) /\ result.val.kind = "Utf8Error"
        ELSE IsOk(result) /\ result.val = response.body

\* C8 amended: get_raw fails with Other("Unable to parse stream as UTF-8") on
\* a body that is not UTF-8, and returns a UTF-8 body unchanged.
C8_OtherOnInvalidUtf8 ==
    Returned("get_raw") =>
        IF IsNotUtf8(response.body)
        THEN IsErr(result) /\ result.val = Other("Unable to parse stream as UTF-8")
        ELSE IsOk(result) /\ result.val = response.body

C8_Witness ==
    /\ Returned("get_raw")
    /\ response.body = BytesBody(<<237, 160, 128>>)
    /\ IsErr(result)
    /\ result.val.kind = "Other"

\* C9: a call issues one GET as it begins when build_url succeeds and none
\* when it fails, and no other for as long as it runs: once the exchange has
\* ended, with whatever outcome, the call returns (or panics) at once.
C9_OneGetPerCall ==
    /\ [](requests <= 1)
    /\ [][pc = "idle" =>
            requests' = (IF \A salt \in Salts :
                               IsOk(build_url(Self, query', args', salt, env))
                         THEN 1 ELSE 0)]_vars
    /\ [][(pc # "idle" /\ pc' # "idle") => requests' = requests]_vars
    /\ [][pc = "received" => pc' \in {"done", "panicked"}]_vars
    /\ [][pc = "done" => pc' = "idle"]_vars

C9_Witness ==
    /\ pc = "done"
    /\ op = "get"
    /\ ~response.ok
    /\ requests = 1
    /\ IsErr(result)
    /\ result.val.kind = "NetworkError"

\* C10: the client's API version stays 1.14.0 and its credentials and base URL
\* never change; every URL it builds carries t= and s= and f=json, and no p=.
C10_ClientIsFixed ==
    /\ [](api = <<1, 14, 0>>)
    /\ [][url' = url /\ auth' = auth /\ api' = api]_vars
    /\ [](raw_uri # EMPTY =>
            LET qs == UrlQuery(raw_uri) IN
            /\ HasParam(qs, <<"t", "=">>)
            /\ HasParam(qs, <<"s", "=">>)
            /\ ~HasParam(qs, <<"p", "=">>)
            /\ ParamValues(qs, <<"f", "=">>) = << <<"v", <<"j", "s", "o", "n">>>> >>)

C10_Witness ==
    /\ pc = "done"
    /\ op = "scan_library"
    /\ IsErr(result)
    /\ raw_uri # EMPTY
    /\ HasParam(UrlQuery(raw_uri), <<"t", "=">>)
    /\ api = <<1, 14, 0>>

====
